---- MODULE Spec2Model ----
(***************************************************************************)
(* A model of the asteroid-impact repository: the reference-data join      *)
(* predict_damage_for_city (predict_damage_for_city.py), the inference     *)
(* helper predict_damage_with_model (predict_damage_with_model.py), the    *)
(* great-circle helper haversine_distance (haversine_distance.py) and the  *)
(* physics / volcano / impact handler of app.py.                           *)
(*                                                                         *)
(* Number conventions.  Degrees are integers.  Distances and radii are     *)
(* integers in metres (the code's kilometres times 1000).  As a feature of  *)
(* the regressor a diameter is in tenths of a metre and a velocity in      *)
(* hundredths of a km/s.  A scaled model output is an integer in units of  *)
(* 1/10000.  A missing table cell (NaN) is the value NaN below.  A name is *)
(* a sequence of one-character strings.                                    *)
(***************************************************************************)
EXTENDS Integers, Sequences, FiniteSets, TLC

VARIABLES
    df_asteroids,   \* the caller's asteroid table (a sequence of rows)
    df_cities,      \* the caller's city table
    df_asteroids0,  \* the asteroid table as first handed over (never written)
    df_cities0,     \* the city table as first handed over (never written)
    model,          \* the pre-trained regressor shared by all calls
    call            \* the last operation: its name, inputs and outcome

vars == <<df_asteroids, df_cities, df_asteroids0, df_cities0, model, call>>

(***************************************************************************)
(* Bounds of the model.                                                    *)
(***************************************************************************)
MaxRows == 2        \* a table has 1..MaxRows rows
MaxTurns == 2       \* normalize_lon is probed on -MaxTurns*360-180 .. MaxTurns*360+180
MaxCalls == 2       \* predict_damage_for_city is called at most MaxCalls times in a row

\* a missing numeric cell: a value no coordinate, distance or radius takes
NaN == 0 - 999999999
NoName == <<"NaN">>

(***************************************************************************)
(* Text: str.strip(), str.lower(), astype(str).                            *)
(***************************************************************************)
Whitespace == {" "}

RECURSIVE LStrip(_)
LStrip(s) ==
    IF s = <<>> THEN <<>>
    ELSE IF Head(s) \in Whitespace THEN LStrip(Tail(s)) ELSE s

RECURSIVE RStrip(_)
RStrip(s) ==
    IF s = <<>> THEN <<>>
    ELSE IF s[Len(s)] \in Whitespace THEN RStrip(SubSeq(s, 1, Len(s) - 1)) ELSE s

Strip(s) == RStrip(LStrip(s))

LowerChar(c) ==
    CASE c = "A" -> "a"
      [] c = "B" -> "b"
      [] c = "N" -> "n"
      [] OTHER -> c

Lower(s) == [i \in DOMAIN s |-> LowerChar(s[i])]

\* astype(str): a missing name reads as the text "nan", a string stays as it is
AsStr(c) == IF c = NoName THEN <<"n", "a", "n">> ELSE c

\* asteroid.strip().lower()
CleanQuery(s) == Lower(Strip(s))

\* <column>.astype(str).str.strip().str.lower(), one cell
CleanCell(c) == Lower(Strip(AsStr(c)))

(***************************************************************************)
(* normalize_lon and validate_coords.                                      *)
(***************************************************************************)
\* a faulty variant: the remainder takes the sign of the dividend, as C's fmod does
normalize_lon_truncating(lon) ==
    IF lon + 180 >= 0 THEN ((lon + 180) % 360) - 180
    ELSE 0 - ((0 - (lon + 180)) % 360) - 180

normalize_lon(lon) == ((lon + 180) % 360) - 180

validate_coords(lat, lon) == (-90 <= lat /\ lat <= 90) /\ (-180 <= lon /\ lon <= 180)

(***************************************************************************)
(* haversine_distance of haversine_distance.py, on whole degrees.  The     *)
(* code computes in 64-bit floats.  On the points whose coordinates are    *)
(* multiples of 90 degrees sin^2 and cos take the values 0, 1/2 and 1 and  *)
(* the formula is followed exactly: a is kept doubled (a2 = 2a), c in      *)
(* nano-radians, the distance in metres.  Off that grid the distance is    *)
(* tabulated at sample pairs.  For a point and its exact antipode the      *)
(* float a = sin(lat)^2 + cos(lat)^2 is 1.0 or one unit in the last place  *)
(* off; where it is 1.0000000000000002 the argument of np.sqrt(1 - a) is   *)
(* negative and the result is nan.                                         *)
(***************************************************************************)
R == 6371

HavValid(lat1, lon1, lat2, lon2) ==
    /\ -90 <= lat1 /\ lat1 <= 90
    /\ -90 <= lat2 /\ lat2 <= 90
    /\ -180 <= lon1 /\ lon1 <= 180
    /\ -180 <= lon2 /\ lon2 <= 180

\* 2 * sin(d/2)**2 for d a multiple of 90 degrees
TwoSinSqHalf(d) ==
    CASE d % 360 = 0 -> 0
      [] d % 360 = 90 -> 1
      [] d % 360 = 180 -> 2
      [] d % 360 = 270 -> 1

\* cos(lat) for lat in {-90, 0, 90}
CosDeg(lat) == IF lat = 0 THEN 1 ELSE 0

HavA2(lat1, lon1, lat2, lon2) ==
    LET dlat == lat2 - lat1
        dlon == lon2 - lon1
    IN  TwoSinSqHalf(dlat) + CosDeg(lat1) * CosDeg(lat2) * TwoSinSqHalf(dlon)

\* the pair has all four coordinates on the 90-degree grid
HavOnGrid(lat1, lon1, lat2, lon2) ==
    lat1 % 90 = 0 /\ lon1 % 90 = 0 /\ lat2 % 90 = 0 /\ lon2 % 90 = 0

\* the whole-degree latitudes at which the float sum sin(lat)**2 + cos(lat)**2
\* of line 33 is 1.0000000000000002
AboveOneLats == {-82, -12, -8, 8, 12, 82}

\* line 33 gives a > 1: among whole-degree pairs in range, exactly the
\* antipodal pairs at those latitudes
HavAAboveOne(lat1, lon1, lat2, lon2) ==
    /\ lat2 = 0 - lat1
    /\ (lon2 - lon1 = 180 \/ lon1 - lon2 = 180)
    /\ lat1 \in AboveOneLats

\* off the grid: the distance lines 33-35 give at the sample pairs, in metres
HavOffGridSamples ==
    { [lat1 |-> 7, lon1 |-> 0, lat2 |-> -7, lon2 |-> 180, dist |-> 20015087],
      [lat1 |-> 8, lon1 |-> 0, lat2 |-> -8, lon2 |-> 179, dist |-> 19904974],
      [lat1 |-> 8, lon1 |-> 0, lat2 |-> 8, lon2 |-> 180, dist |-> 18235968],
      [lat1 |-> 8, lon1 |-> 0, lat2 |-> -8, lon2 |-> 0, dist |-> 1779119],
      [lat1 |-> 8, lon1 |-> 90, lat2 |-> 8, lon2 |-> 90, dist |-> 0],
      [lat1 |-> 8, lon1 |-> 0, lat2 |-> 0, lon2 |-> 0, dist |-> 889559],
      [lat1 |-> 8, lon1 |-> 0, lat2 |-> 90, lon2 |-> 90, dist |-> 9117984],
      [lat1 |-> 0, lon1 |-> 0, lat2 |-> -8, lon2 |-> -180, dist |-> 19125527],
      [lat1 |-> 0, lon1 |-> -180, lat2 |-> -8, lon2 |-> -180, dist |-> 889559],
      [lat1 |-> 45, lon1 |-> 45, lat2 |-> -45, lon2 |-> -135, dist |-> 20015087] }

HavOffGrid(lat1, lon1, lat2, lon2) ==
    (CHOOSE p \in HavOffGridSamples :
        p.lat1 = lat1 /\ p.lon1 = lon1 /\ p.lat2 = lat2 /\ p.lon2 = lon2).dist

\* c = 2 * arctan2(sqrt(a), sqrt(1 - a)): 0, pi/2, pi, in nano-radians written
\* as <<milli, micro, nano>> digits of base 1000
HavC(a2) ==
    CASE a2 = 0 -> <<0, 0, 0>>
      [] a2 = 1 -> <<1570, 796, 327>>
      [] a2 = 2 -> <<3141, 592, 654>>

\* distance = R * c, rounded to the metre
HavDistance(c) ==
    R * c[1] + (R * c[2] + (R * c[3] + 500) \div 1000 + 500) \div 1000

\* The whole function: a ValueError, or what line 37 returns: the distance, or
\* nan where 1 - a is negative (np.sqrt gives nan with a warning, and nan goes
\* through arctan2 and the product with R).
haversine_distance(lat1, lon1, lat2, lon2) ==
    IF ~HavValid(lat1, lon1, lat2, lon2)
    THEN [raised |-> "ValueError", value |-> NaN]
    ELSE IF HavAAboveOne(lat1, lon1, lat2, lon2)
    THEN [raised |-> "none", value |-> NaN]
    ELSE IF HavOnGrid(lat1, lon1, lat2, lon2)
    THEN [raised |-> "none",
          value |-> HavDistance(HavC(HavA2(lat1, lon1, lat2, lon2)))]
    ELSE [raised |-> "none", value |-> HavOffGrid(lat1, lon1, lat2, lon2)]

(***************************************************************************)
(* The collaborators of the inference step.  The scalers are sklearn       *)
(* MinMaxScaler objects and the regressor is a pickled model; scaler_y is  *)
(* the one create_scaler_y.py fits.                                        *)
(***************************************************************************)
\* the feature ranges scaler_X was fitted on: diameter_m, V relative(km/s),
\* asteroid_lat, asteroid_lon, closest_delta_km
ScalerXMin == <<0, 0, -90, -180, 0>>
ScalerXMax == <<10000, 10000, 90, 180, 10000>>

\* scaler_X.transform: (x - min) / (max - min), in thousandths
ScalerXTransform(features) ==
    [i \in DOMAIN features |->
        ((features[i] - ScalerXMin[i]) * 1000) \div (ScalerXMax[i] - ScalerXMin[i])]

\* the regressors the calls may share; a regressor is a fixed function of the
\* scaled features, its two outputs in units of 1/10000
Models == {1, 2}

ModelPredict(m, fs) ==
    CASE m = 1 -> <<5000, 10002543>>
      [] m = 2 -> <<fs[1] * 10, fs[4] * 20000>>

\* y_dummy of create_scaler_y.py: column minima and maxima, in km
ScalerYMin == <<1, 5>>
ScalerYMax == <<3, 15>>

\* scaler_y.inverse_transform: p * (max - min) + min, here in metres
ScalerYInverse(p) ==
    [i \in DOMAIN p |-> (p[i] * (ScalerYMax[i] - ScalerYMin[i])) \div 10 + ScalerYMin[i] * 1000]

(***************************************************************************)
(* predict_damage_for_city.                                                *)
(***************************************************************************)
\* df["Object"] = df["Object"].astype(str).str.strip().str.lower(), in place
CleanAsteroids(df) == [i \in DOMAIN df |-> [df[i] EXCEPT !.Object = CleanCell(@)]]

\* df["city"] = df["city"].astype(str).str.strip().str.lower(), in place
CleanCities(df) == [i \in DOMAIN df |-> [df[i] EXCEPT !.city = CleanCell(@)]]

\* a table's rows with their index labels, as pandas carries them
Indexed(df) == [i \in DOMAIN df |-> [name |-> i, row |-> df[i]]]

\* dropna(subset=[c1, c2]) on the two coordinate cells of a row
HasCoords(a, b) == a # NaN /\ b # NaN

DropNaAsteroids(rows) ==
    SelectSeq(rows, LAMBDA r : HasCoords(r.row.asteroid_lat, r.row.asteroid_lon))

DropNaCities(rows) ==
    SelectSeq(rows, LAMBDA r : HasCoords(r.row.lat, r.row.lng))

\* a faulty variant: the name only has to contain the query, as str.contains does
NameContains(cell, query) ==
    \E i \in 0..(Len(cell) - Len(query)) : SubSeq(cell, i + 1, i + Len(query)) = query

\* the comparison of df[df['Object'] == asteroid] and df[df['city'] == city]
NameEquals(cell, query) == cell = query

\* a faulty variant: a city on the edge of the blast counts as affected
IsAffectedInclusive(distance, blast) ==
    distance # NaN /\ blast # NaN /\ distance <= blast

\* bool(distance < pred[1]); a comparison with nan is False
IsAffected(distance, blast) ==
    distance # NaN /\ blast # NaN /\ distance < blast

NoRow == [name |-> 0]

\* a faulty variant: the city is looked for first
LookupErrorCityFirst(asteroid_rows, city_rows) ==
    IF city_rows = <<>> THEN "city_not_found"
    ELSE IF asteroid_rows = <<>> THEN "asteroid_not_found"
    ELSE "none"

\* lines 40-43: which lookup raises, the asteroid's being tested first
LookupError(asteroid_rows, city_rows) ==
    IF asteroid_rows = <<>> THEN "asteroid_not_found"
    ELSE IF city_rows = <<>> THEN "city_not_found"
    ELSE "none"

\* the outcome of a call that raised: everything is wrapped into one Exception
\* whose text carries the cleaned names and the inner message
Raised(asteroid, city, inner, arow, crow, trace) ==
    [status |-> "Exception", message |-> <<asteroid, city, inner>>,
     asteroid_row |-> arow, city_row |-> crow, trace |-> trace,
     crater_diam_km |-> NaN, blast_radius_km |-> NaN,
     distance_km |-> NaN, is_city_affected |-> FALSE]

\* lines 32-83 on the cleaned names and the cleaned tables
CityBody(asteroid, city, dfa, dfc, m) ==
    LET rowsA == DropNaAsteroids(Indexed(dfa))
        rowsC == DropNaCities(Indexed(dfc))
        asteroid_rows == SelectSeq(rowsA, LAMBDA r : NameEquals(r.row.Object, asteroid))
        city_rows == SelectSeq(rowsC, LAMBDA r : NameEquals(r.row.city, city))
        not_found == LookupError(asteroid_rows, city_rows)
    IN  IF not_found # "none"
        THEN Raised(asteroid, city, not_found, NoRow, NoRow, <<>>)
        ELSE
        LET a0 == Head(asteroid_rows)
            c0 == Head(city_rows)
            \* the selected rows are copies; the longitudes are rewritten in them
            asteroid_row == [name |-> a0.name,
                             asteroid_lat |-> a0.row.asteroid_lat,
                             asteroid_lon |-> normalize_lon(a0.row.asteroid_lon),
                             diameter_m |-> a0.row.diameter_m,
                             v_rel |-> a0.row.v_rel,
                             closest_delta_km |-> a0.row.closest_delta_km]
            city_row == [name |-> c0.name,
                         lat |-> c0.row.lat,
                         lng |-> normalize_lon(c0.row.lng)]
        IN  IF ~validate_coords(asteroid_row.asteroid_lat, asteroid_row.asteroid_lon)
            THEN Raised(asteroid, city, "invalid_asteroid_coords", asteroid_row, city_row, <<>>)
            ELSE IF ~validate_coords(city_row.lat, city_row.lng)
            THEN Raised(asteroid, city, "invalid_city_coords", asteroid_row, city_row, <<>>)
            ELSE
            LET features == <<asteroid_row.diameter_m, asteroid_row.v_rel,
                              asteroid_row.asteroid_lat, asteroid_row.asteroid_lon,
                              asteroid_row.closest_delta_km>>
                features_scaled == ScalerXTransform(features)
                pred_scaled == ModelPredict(m, features_scaled)
                pred == ScalerYInverse(pred_scaled)
                distance == haversine_distance(asteroid_row.asteroid_lat, asteroid_row.asteroid_lon,
                                               city_row.lat, city_row.lng)
                trace == <<"scaler_X.transform", "model.predict",
                           "scaler_y.inverse_transform", "haversine_distance">>
            IN  IF distance.raised # "none"
                THEN Raised(asteroid, city, "distance_error", asteroid_row, city_row, trace)
                ELSE [status |-> "ok", message |-> <<>>,
                      asteroid_row |-> asteroid_row, city_row |-> city_row, trace |-> trace,
                      crater_diam_km |-> pred[1],
                      blast_radius_km |-> pred[2],
                      distance_km |-> distance.value,
                      is_city_affected |-> IsAffected(distance.value, pred[2])]

\* what the call leaves in the caller's two tables: only the name columns are
\* assigned (lines 29-30); dropna, the row selection and the longitude rewrite
\* all work on copies
\* a faulty variant: the selected row is a view, and its rewritten longitude
\* lands in the caller's table
CallerAsteroidsAfterWriteBack(df, out) ==
    [i \in DOMAIN df |->
        IF i = out.asteroid_row.name
        THEN [CleanAsteroids(df)[i] EXCEPT !.asteroid_lon = out.asteroid_row.asteroid_lon]
        ELSE CleanAsteroids(df)[i]]

CallerAsteroidsAfter(df, out) == CleanAsteroids(df)

CallerCitiesAfter(df, out) == CleanCities(df)

\* how many calls of predict_damage_for_city the tables have been through
CallsSoFar == IF call.name = "predict_damage_for_city" THEN call.nth ELSE 0

PredictDamageForCity(asteroid_in, city_in) ==
    LET asteroid == CleanQuery(asteroid_in)
        city == CleanQuery(city_in)
        out == CityBody(asteroid, city, CleanAsteroids(df_asteroids),
                        CleanCities(df_cities), model)
    IN  /\ CallsSoFar < MaxCalls
        /\ df_asteroids' = CallerAsteroidsAfter(df_asteroids, out)
        /\ df_cities' = CallerCitiesAfter(df_cities, out)
        /\ call' = [name |-> "predict_damage_for_city", nth |-> CallsSoFar + 1,
                    asteroid |-> asteroid_in, city |-> city_in, out |-> out]
        /\ UNCHANGED <<df_asteroids0, df_cities0, model>>

\* normalize_lon called on its own, on the longitude drawn for the run
NormalizeLon ==
    /\ call.name = "lon_input"
    /\ call' = [name |-> "normalize_lon", lon |-> call.lon, out |-> normalize_lon(call.lon)]
    /\ UNCHANGED <<df_asteroids, df_cities, df_asteroids0, df_cities0, model>>

(***************************************************************************)
(* The inputs of predict_damage_for_city: tables, queries, regressors.     *)
(***************************************************************************)
CityQueries == {<<"a", " ">>, <<"A", "B">>, <<"b">>}

AsteroidQueries == CityQueries \cup {<<"N", "a", "n">>}

\* every asteroid of the tables: 100 m across, 20 km/s, passing at 1000 km
ARow(n, lat, lon) ==
    [Object |-> n, asteroid_lat |-> lat, asteroid_lon |-> lon,
     diameter_m |-> 1000, v_rel |-> 2000, closest_delta_km |-> 1000]

AsteroidRows ==
    {ARow(<<" ", "A">>, 0, 0), ARow(<<" ", "A">>, NaN, 270),
     ARow(<<"a", "b">>, 91, 540), ARow(NoName, 0, -540),
     ARow(<<"a", "b">>, 8, 360)}

CRow(n, lat, lng) == [city |-> n, lat |-> lat, lng |-> lng]

CityRows ==
    {CRow(<<" ", "A">>, 0, 0), CRow(<<" ", "A">>, 0, NaN),
     CRow(<<"a", "b">>, 90, 450), CRow(<<"a", "b">>, -91, -180),
     CRow(<<" ", "A">>, -8, 180)}

Tables(rows, n) == UNION {[1..k -> rows] : k \in 1..n}

NoCall == [name |-> "none"]

Init ==
    /\ df_asteroids0 \in Tables(AsteroidRows, MaxRows)
    /\ df_cities0 \in Tables(CityRows, MaxRows)
    /\ df_asteroids = df_asteroids0
    /\ df_cities = df_cities0
    /\ model \in Models
    /\ call = NoCall

Next == \E a \in AsteroidQueries, c \in CityQueries : PredictDamageForCity(a, c)

Spec == Init /\ [][Next]_vars

(***************************************************************************)
(* normalize_lon on every whole longitude of a range, beside calls of      *)
(* predict_damage_for_city on one-row tables.                              *)
(***************************************************************************)
Longitudes == (-(MaxTurns * 360) - 180)..(MaxTurns * 360 + 180)

InitLon ==
    /\ df_asteroids0 \in Tables(AsteroidRows, 1)
    /\ df_cities0 \in Tables(CityRows, 1)
    /\ df_asteroids = df_asteroids0
    /\ df_cities = df_cities0
    /\ model = 1
    /\ call \in {[name |-> "lon_input", lon |-> lon] : lon \in Longitudes}

NextLon ==
    \/ NormalizeLon
    \/ \E a \in AsteroidQueries, c \in CityQueries : PredictDamageForCity(a, c)

SpecLon == InitLon /\ [][NextLon]_vars

(***************************************************************************)
(* predict_damage_with_model and haversine_distance called on their own.   *)
(***************************************************************************)
\* model=None, scaler_X=None, scaler_y=None: the argument was not given
None == 0

\* lines 28-31: the two checks that raise ValueError inside the try block
PdmInputsValid(diameter_m, velocity_kms) == ~(diameter_m < 10 \/ velocity_kms < 10)

PdmProvided(m, scaler_X, scaler_y) == ~(m = None \/ scaler_X = None \/ scaler_y = None)

\* what a ValueError raised in the try block comes to (lines 43-45): it is
\* caught, a line is printed and (nan, nan) is returned
PdmOnValueError(what) ==
    [raised |-> "none", printed |-> what, value |-> <<NaN, NaN>>]

predict_damage_with_model(diameter_m, velocity_kms, lat, lon, delta_km, m, scaler_X, scaler_y) ==
    IF ~PdmInputsValid(diameter_m, velocity_kms)
    THEN PdmOnValueError("invalid_inputs")
    ELSE IF ~PdmProvided(m, scaler_X, scaler_y)
    THEN PdmOnValueError("model_or_scalers_missing")
    ELSE
    LET features == <<diameter_m, velocity_kms, lat, lon, delta_km>>
        features_scaled == ScalerXTransform(features)
        pred_scaled == ModelPredict(m, features_scaled)
        pred == ScalerYInverse(pred_scaled)
    IN  [raised |-> "none", printed |-> "nothing", value |-> <<pred[1], pred[2]>>]

PredictDamageWithModel ==
    /\ call.name = "pdm_input"
    /\ call' = [name |-> "predict_damage_with_model",
                diameter_m |-> call.diameter_m, velocity_kms |-> call.velocity_kms,
                model |-> call.model, scaler_X |-> call.scaler_X, scaler_y |-> call.scaler_y,
                out |-> predict_damage_with_model(call.diameter_m, call.velocity_kms,
                                                  0, 0, 1000,
                                                  call.model, call.scaler_X, call.scaler_y)]
    /\ UNCHANGED <<df_asteroids, df_cities, df_asteroids0, df_cities0, model>>

HaversineDistance ==
    /\ call.name = "hav_input"
    /\ call' = [name |-> "haversine_distance",
                lat1 |-> call.lat1, lon1 |-> call.lon1, lat2 |-> call.lat2, lon2 |-> call.lon2,
                out |-> haversine_distance(call.lat1, call.lon1, call.lat2, call.lon2)]
    /\ UNCHANGED <<df_asteroids, df_cities, df_asteroids0, df_cities0, model>>

\* diameters in tenths of a metre, velocities in hundredths of a km/s
PdmDiameters == {-10, 0, 9, 10, 11, 1000}
PdmVelocities == {0, 9, 10, 11, 2000}

\* a scaler argument: not given, or a fitted scaler
ScalerArgs == {None, 1}

PdmInputs ==
    {[name |-> "pdm_input", diameter_m |-> d, velocity_kms |-> v,
      model |-> m, scaler_X |-> sx, scaler_y |-> sy] :
        d \in PdmDiameters, v \in PdmVelocities, m \in {None} \cup Models,
        sx \in ScalerArgs, sy \in ScalerArgs}

HavLats == {-91, -90, 0, 90, 91}
HavLons == {-181, -180, -90, 0, 90, 180, 181}

\* exact antipodes at whole degrees, where a of line 33 exceeds 1
HavAntipodalPairs ==
    { <<8, 0, -8, 180>>, <<-8, 180, 8, 0>>, <<12, 0, -12, -180>>, <<82, -90, -82, 90>> }

HavInputs ==
    {[name |-> "hav_input", lat1 |-> a, lon1 |-> b, lat2 |-> c, lon2 |-> d] :
        a \in HavLats, b \in HavLons, c \in HavLats, d \in HavLons}
    \cup {[name |-> "hav_input", lat1 |-> p.lat1, lon1 |-> p.lon1,
           lat2 |-> p.lat2, lon2 |-> p.lon2] : p \in HavOffGridSamples}
    \cup {[name |-> "hav_input", lat1 |-> q[1], lon1 |-> q[2],
           lat2 |-> q[3], lon2 |-> q[4]] : q \in HavAntipodalPairs}

InitHelpers ==
    /\ df_asteroids0 = <<>>
    /\ df_cities0 = <<>>
    /\ df_asteroids = <<>>
    /\ df_cities = <<>>
    /\ model = 1
    /\ (call \in PdmInputs \/ call \in HavInputs)

NextHelpers == PredictDamageWithModel \/ HaversineDistance

SpecHelpers == InitHelpers /\ [][NextHelpers]_vars

(***************************************************************************)
(* app.py.  The physics is products, quotients and powers of floats, so a  *)
(* float is kept as its sign and its base-10 logarithm in thousandths:     *)
(* x = s * 10^(l/1000).  A product adds logarithms, a power scales them,   *)
(* log10 reads them off, and an order comparison compares them.  A power   *)
(* of a negative float with a fractional exponent is a Python complex.     *)
(***************************************************************************)
Real(sign, l) == [k |-> "real", s |-> sign, l |-> l]
Zero == Real(0, 0)
Complex == [k |-> "complex", s |-> 0, l |-> 0]

\* round(1000 * log10(n)) for the whole numbers the requests use
Log10Milli(n) ==
    CASE n = 1 -> 0
      [] n = 20 -> 1301
      [] n = 100 -> 2000
      [] n = 500 -> 2699
      [] n = 12741999 -> 7105
      [] n = 12742000 -> 7105
      [] n = 12742001 -> 7105

\* float(n)
FromInt(n) ==
    IF n = 0 THEN Zero
    ELSE IF n > 0 THEN Real(1, Log10Milli(n)) ELSE Real(-1, Log10Milli(-n))

Mul(x, y) ==
    IF x.k = "complex" \/ y.k = "complex" THEN Complex
    ELSE IF x.s = 0 \/ y.s = 0 THEN Zero
    ELSE Real(x.s * y.s, x.l + y.l)

\* x / y for y # 0
Div(x, y) ==
    IF x.k = "complex" \/ y.k = "complex" THEN Complex
    ELSE IF x.s = 0 THEN Zero
    ELSE Real(x.s * y.s, x.l - y.l)

\* x ** n for n = 2 or 3
PowInt(x, n) ==
    IF x.k = "complex" THEN Complex
    ELSE IF x.s = 0 THEN Zero
    ELSE Real(IF n % 2 = 0 THEN 1 ELSE x.s, n * x.l)

\* x ** (num / den) for a fraction strictly between 0 and 1
PowFrac(x, num, den) ==
    IF x.k = "complex" THEN Complex
    ELSE IF x.s = 0 THEN Zero
    ELSE IF x.s < 0 THEN Complex
    ELSE Real(1, (x.l * num) \div den)

\* x <= 0 and x > y on floats
LeqZero(x) == x.s <= 0

Gt(x, y) ==
    \/ x.s > y.s
    \/ x.s = y.s /\ x.s = 1 /\ x.l > y.l
    \/ x.s = y.s /\ x.s = -1 /\ x.l < y.l

\* math.log10(x): a ValueError (math domain error) unless x > 0
MathLog10(x) ==
    IF x.s > 0 THEN [raised |-> "none", value |-> x.l]
    ELSE [raised |-> "ValueError", value |-> NaN]

\* the float literals of the formulas: 2.0, 4.0/3.0, math.pi, 3000, 1000.0, 0.5
Two == Real(1, 301)
FourThirds == Real(1, 125)
Pi == Real(1, 497)
Density == Real(1, 3477)
Thousand == Real(1, 3000)
Half == Real(1, -301)

calculate_energy(diameter_m, velocity_kms) ==
    LET radius_m == Div(diameter_m, Two)
        volume_m3 == Mul(Mul(FourThirds, Pi), PowInt(radius_m, 3))
        mass_kg == Mul(volume_m3, Density)
        velocity_ms == Mul(velocity_kms, Thousand)
        energy_joules == Mul(Mul(Half, mass_kg), PowInt(velocity_ms, 2))
    IN  energy_joules

calculate_crater_diameter(diameter_m, velocity_kms) ==
    Mul(diameter_m, PowFrac(velocity_kms, 44, 100))

calculate_blast_radius(energy_joules) == Div(PowFrac(energy_joules, 1, 3), Thousand)

\* the guard of line 48
MagnitudeIsZero(energy_joules) == LeqZero(energy_joules)

\* the magnitude in thousandths: (2.0 / 3.0) * (log10(energy) - 4.8)
calculate_earthquake_magnitude(energy_joules) ==
    IF MagnitudeIsZero(energy_joules)
    THEN [raised |-> "none", value |-> 0]
    ELSE LET lg == MathLog10(energy_joules)
         IN  IF lg.raised # "none" THEN lg
             ELSE [raised |-> "none", value |-> (2 * (lg.value - 4800)) \div 3]

(***************************************************************************)
(* haversine_distance of app.py, between an impact point and a volcano.    *)
(* A coordinate of app.py is the decimal text of the float.  The distance  *)
(* is tabulated: for each impact point of the model, dist is the           *)
(* great-circle distance to each volcano, in metres (rounded), which is    *)
(* the value the formula of lines 75-83 gives wherever it gives one; and   *)
(* a_above_one holds the volcanoes for which the float a of line 81 comes  *)
(* out as 1.0000000000000002, so that 1 - a is negative at line 82.  That  *)
(* happens for points within rounding of a volcano's antipode.             *)
(***************************************************************************)
volcanoes ==
    << [name |-> "Mount St. Helens", lat |-> "46.2", lon |-> "-122.18", radius_km |-> 50],
       [name |-> "Kilauea", lat |-> "19.4", lon |-> "-155.3", radius_km |-> 50],
       [name |-> "Mount Rainier", lat |-> "46.85", lon |-> "-121.75", radius_km |-> 50] >>

ImpactPoints ==
    { [lat |-> "46.2", lon |-> "-122.18", dist |-> <<0, 4240843, 79411>>, a_above_one |-> {}],
      [lat |-> "46.525", lon |-> "-121.965", dist |-> <<39726, 4274538, 39685>>, a_above_one |-> {}],
      [lat |-> "46.85", lon |-> "-121.75", dist |-> <<79411, 4308181, 0>>, a_above_one |-> {}],
      [lat |-> "19.4", lon |-> "-155.3", dist |-> <<4240843, 0, 4308181>>, a_above_one |-> {}],
      [lat |-> "36.0", lon |-> "-120.0", dist |-> <<1148677, 3904376, 1215168>>, a_above_one |-> {}],
      [lat |-> "46.64962698903335", lon |-> "-122.172", dist |-> <<50000, 4269070, 39117>>, a_above_one |-> {}],
      [lat |-> "45.79974823030681", lon |-> "-122.475", dist |-> <<50000, 4197321, 129372>>, a_above_one |-> {}],
      [lat |-> "45.74", lon |-> "-122.18", dist |-> <<51150, 4212844, 127771>>, a_above_one |-> {}],
      [lat |-> "19.754208728150093", lon |-> "-155.594", dist |-> <<4228762, 50000, 4295579>>, a_above_one |-> {}],
      [lat |-> "-46.199999", lon |-> "57.819999", dist |-> <<20015087, 15774244, 19935676>>,
       a_above_one |-> {1}] }

app_haversine_distance(lat1, lon1, lat2, lon2) ==
    LET p == CHOOSE q \in ImpactPoints : q.lat = lat1 /\ q.lon = lon1
        i == CHOOSE j \in DOMAIN volcanoes : volcanoes[j].lat = lat2 /\ volcanoes[j].lon = lon2
    IN  IF i \in p.a_above_one
        THEN [raised |-> "ValueError", value |-> NaN]   \* math.sqrt(1-a), line 82
        ELSE [raised |-> "none", value |-> p.dist[i]]

\* dist <= v["radius_km"], the distance in metres
WithinRadius(dist, radius_km) == dist <= radius_km * 1000

\* lines 97-102
ImpactLevel(energy_joules) ==
    IF Gt(energy_joules, Real(1, 19000)) THEN "high"
    ELSE IF Gt(energy_joules, Real(1, 17000)) THEN "medium"
    ELSE "low"

\* the for loop of lines 94-104, from volcano i on
RECURSIVE VolcanoLoop(_, _, _, _)
VolcanoLoop(i, lat, lon, energy_joules) ==
    IF i > Len(volcanoes) THEN [raised |-> "none", value |-> <<FALSE, "None", "None">>]
    ELSE LET v == volcanoes[i]
             dist == app_haversine_distance(lat, lon, v.lat, v.lon)
         IN  IF dist.raised # "none" THEN dist
             ELSE IF WithinRadius(dist.value, v.radius_km)
             THEN [raised |-> "none", value |-> <<TRUE, v.name, ImpactLevel(energy_joules)>>]
             ELSE VolcanoLoop(i + 1, lat, lon, energy_joules)

is_volcanic_area(lat, lon, energy_joules) == VolcanoLoop(1, lat, lon, energy_joules)

\* is_water, given what get_elevation_usgs answered (NaN: it answered None)
is_water(elev) ==
    IF elev # NaN THEN <<elev <= 0, "usgs_api", elev>>
    ELSE <<FALSE, "fallback_default_land", NaN>>

(***************************************************************************)
(* The /impact handler.                                                    *)
(***************************************************************************)
EARTH_DIAMETER_M == 12742000

\* a faulty variant: an impactor exactly as wide as the Earth is not catastrophic
IsCatastrophicStrict(diameter_m) == diameter_m > EARTH_DIAMETER_M

\* line 137
IsCatastrophic(diameter_m) == diameter_m >= EARTH_DIAMETER_M

\* jsonify serialises floats; a complex value makes it raise TypeError
Serializable(x) == x.k # "complex"

impact(diameter_in, velocity_in, lat, lon, elev) ==
    LET diameter_m == FromInt(diameter_in)
        velocity_kms == FromInt(velocity_in)
        catastrophic_flag == IsCatastrophic(diameter_in)
        catastrophic_message == IF catastrophic_flag THEN "Total destruction!" ELSE "None"
        energy == calculate_energy(diameter_m, velocity_kms)
        crater_diam_m == calculate_crater_diameter(diameter_m, velocity_kms)
        crater_diam_km == Div(crater_diam_m, Thousand)
        blast_radius_km == calculate_blast_radius(energy)
        magnitude == calculate_earthquake_magnitude(energy)
        water == is_water(elev)
        volcanic == is_volcanic_area(lat, lon, energy)
    IN  IF magnitude.raised # "none"
        THEN [status |-> 500, raised |-> magnitude.raised, step |-> "magnitude"]
        ELSE IF volcanic.raised # "none"
        THEN [status |-> 500, raised |-> volcanic.raised, step |-> "is_volcanic_area"]
        ELSE IF ~(Serializable(energy) /\ Serializable(crater_diam_m)
                  /\ Serializable(crater_diam_km) /\ Serializable(blast_radius_km))
        THEN [status |-> 500, raised |-> "TypeError", step |-> "jsonify"]
        ELSE [status |-> 200, raised |-> "none", step |-> "done",
              is_water |-> water[1], is_water_source |-> water[2], elevation_m |-> water[3],
              energy_joules |-> energy,
              crater_diameter_m |-> crater_diam_m,
              crater_diameter_km |-> crater_diam_km,
              blast_radius_km |-> blast_radius_km,
              earthquake_magnitude |-> magnitude.value,
              is_affected |-> volcanic.value[1],
              volcano_name |-> volcanic.value[2],
              impact_level |-> volcanic.value[3],
              catastrophic_destruction |-> catastrophic_flag,
              catastrophic_message |-> catastrophic_message]

\* what the elevation service may answer: nothing, or an elevation in metres
ElevationAnswers == {NaN, -3, 0, 12}

Impact ==
    /\ call.name = "impact_input"
    /\ \E elev \in ElevationAnswers :
         call' = [name |-> "impact", diameter_m |-> call.diameter_m,
                  velocity_kms |-> call.velocity_kms, lat |-> call.lat, lon |-> call.lon,
                  out |-> impact(call.diameter_m, call.velocity_kms, call.lat, call.lon, elev)]
    /\ UNCHANGED <<df_asteroids, df_cities, df_asteroids0, df_cities0, model>>

IsVolcanicArea ==
    /\ call.name = "volcano_input"
    /\ call' = [name |-> "is_volcanic_area", lat |-> call.lat, lon |-> call.lon,
                energy_joules |-> call.energy_joules,
                out |-> is_volcanic_area(call.lat, call.lon, call.energy_joules)]
    /\ UNCHANGED <<df_asteroids, df_cities, df_asteroids0, df_cities0, model>>

CalculateEarthquakeMagnitude ==
    /\ call.name = "magnitude_input"
    /\ call' = [name |-> "calculate_earthquake_magnitude",
                energy_joules |-> call.energy_joules,
                out |-> calculate_earthquake_magnitude(call.energy_joules)]
    /\ UNCHANGED <<df_asteroids, df_cities, df_asteroids0, df_cities0, model>>

ImpactDiameters == {-100, 0, 1, 100, 500, 12741999, 12742000, 12742001}
ImpactVelocities == {-20, 0, 20}

\* energies handed to the two functions directly: below zero, zero, and the
\* neighbourhood of 1e17 and 1e19
Energies ==
    {Real(-1, 17500), Zero, Real(1, 4800), Real(1, 16999), Real(1, 17000), Real(1, 17001),
     Real(1, 18999), Real(1, 19000), Real(1, 19001)}

ImpactInputs ==
    {[name |-> "impact_input", diameter_m |-> d, velocity_kms |-> v,
      lat |-> p.lat, lon |-> p.lon] :
        d \in ImpactDiameters, v \in ImpactVelocities, p \in ImpactPoints}

VolcanoInputs ==
    {[name |-> "volcano_input", lat |-> p.lat, lon |-> p.lon, energy_joules |-> e] :
        p \in ImpactPoints, e \in Energies}

MagnitudeInputs == {[name |-> "magnitude_input", energy_joules |-> e] : e \in Energies}

InitImpact ==
    /\ df_asteroids0 = <<>>
    /\ df_cities0 = <<>>
    /\ df_asteroids = <<>>
    /\ df_cities = <<>>
    /\ model = 1
    /\ (call \in ImpactInputs \/ call \in VolcanoInputs \/ call \in MagnitudeInputs)

NextImpact == Impact \/ IsVolcanicArea \/ CalculateEarthquakeMagnitude

SpecImpact == InitImpact /\ [][NextImpact]_vars

(***************************************************************************)
(* Properties of predict_damage_for_city.                                  *)
(***************************************************************************)
IsCityCall == call.name = "predict_damage_for_city"

SetMin(S) == CHOOSE x \in S : \A y \in S : x <= y

\* the rows of the table as first handed over that have both coordinates and
\* whose name, read as text, stripped and lower-cased, is the stripped and
\* lower-cased query
AsteroidCandidates(q) ==
    {i \in DOMAIN df_asteroids0 :
        /\ df_asteroids0[i].asteroid_lat # NaN
        /\ df_asteroids0[i].asteroid_lon # NaN
        /\ Lower(Strip(AsStr(df_asteroids0[i].Object))) = Lower(Strip(q))}

CityCandidates(q) ==
    {i \in DOMAIN df_cities0 :
        /\ df_cities0[i].lat # NaN
        /\ df_cities0[i].lng # NaN
        /\ Lower(Strip(AsStr(df_cities0[i].city))) = Lower(Strip(q))}

\* C1: the asteroid and the city are found by a case-insensitive, trimmed exact
\* match.  Whenever a call selects rows, the asteroid row and the city row are
\* each the first row in table order, among the rows with both coordinates
\* present, whose trimmed lower-cased name equals the trimmed lower-cased query;
\* and rows are selected exactly when both tables hold such a row, so a name
\* that only contains the query, or is contained in it, is never used.
C1_ExactMatchLookup ==
    IsCityCall =>
        LET A == AsteroidCandidates(call.asteroid)
            C == CityCandidates(call.city)
        IN  /\ (A # {} /\ C # {}) =>
                /\ call.out.asteroid_row.name = SetMin(A)
                /\ call.out.city_row.name = SetMin(C)
            /\ (A = {} \/ C = {}) =>
                /\ call.out.asteroid_row = NoRow
                /\ call.out.city_row = NoRow

\* C1's case: both lookups pass over a first row and use the second, and the
\* asteroid's name as stored differs from the query in case or whitespace
C1_Witness ==
    /\ IsCityCall
    /\ call.out.asteroid_row.name = 2
    /\ call.out.city_row.name = 2
    /\ df_asteroids0[2].Object # call.asteroid
    /\ call.out.status = "ok"

\* C2: in every successful call is_city_affected is true exactly when the
\* haversine distance between the asteroid's and the city's coordinates is
\* strictly less than the predicted blast radius (the second model output after
\* inverse scaling); at equal distance and radius the city is not affected, nor
\* is it where the distance is nan, which is less than nothing; and the
\* reported distance and radius are the two values compared.
C2_AffectedIffStrictlyInside ==
    (IsCityCall /\ call.out.status = "ok") =>
        LET a == call.out.asteroid_row
            c == call.out.city_row
            d == haversine_distance(a.asteroid_lat, a.asteroid_lon, c.lat, c.lng)
            pred == ScalerYInverse(ModelPredict(model, ScalerXTransform(
                        <<a.diameter_m, a.v_rel, a.asteroid_lat, a.asteroid_lon,
                          a.closest_delta_km>>)))
        IN  /\ d.raised = "none"
            /\ call.out.distance_km = d.value
            /\ call.out.blast_radius_km = pred[2]
            /\ call.out.is_city_affected = (d.value # NaN /\ d.value < pred[2])
            /\ (d.value = pred[2] => call.out.is_city_affected = FALSE)
            /\ (d.value = NaN => call.out.is_city_affected = FALSE)

\* C2's case: a city exactly on the edge of the blast
C2_Witness ==
    /\ IsCityCall
    /\ call.out.status = "ok"
    /\ call.out.distance_km = call.out.blast_radius_km
    /\ call.out.distance_km > 0
    /\ call.out.is_city_affected = FALSE

\* C6: when the asteroid name or the city name has no matching row with both
\* coordinates present, the call fails, returns no result and invokes neither
\* the scalers nor the model; with both missing the error is the
\* asteroid-not-found one; a row whose coordinates are missing counts as not
\* found even if its name matches.
C6_NotFoundFailsBeforeModel ==
    IsCityCall =>
        LET A == AsteroidCandidates(call.asteroid)
            C == CityCandidates(call.city)
        IN  (A = {} \/ C = {}) =>
                /\ call.out.status = "Exception"
                /\ call.out.trace = <<>>
                /\ call.out.crater_diam_km = NaN
                /\ call.out.blast_radius_km = NaN
                /\ call.out.distance_km = NaN
                /\ (A = {} => call.out.message[3] = "asteroid_not_found")
                /\ (A # {} => call.out.message[3] = "city_not_found")

\* C6's case: both names are missing, the asteroid's only because every row of
\* that name lacks a coordinate
C6_Witness ==
    /\ IsCityCall
    /\ AsteroidCandidates(call.asteroid) = {}
    /\ CityCandidates(call.city) = {}
    /\ \E i \in DOMAIN df_asteroids0 :
           CleanCell(df_asteroids0[i].Object) = CleanQuery(call.asteroid)
    /\ call.out.message[3] = "asteroid_not_found"

\* C10: over a sequence of calls on the same tables, model and scalers, the
\* outcome of each call is the outcome the same names have on the tables as
\* first handed over, whatever calls came before; and the calls change no
\* coordinate or feature cell of the caller's tables (and no row count).
C10_OutcomeFromOriginalTables ==
    /\ IsCityCall =>
           call.out = CityBody(CleanQuery(call.asteroid), CleanQuery(call.city),
                               CleanAsteroids(df_asteroids0), CleanCities(df_cities0), model)
    /\ Len(df_asteroids) = Len(df_asteroids0)
    /\ Len(df_cities) = Len(df_cities0)
    /\ \A i \in DOMAIN df_asteroids :
           /\ df_asteroids[i].asteroid_lat = df_asteroids0[i].asteroid_lat
           /\ df_asteroids[i].asteroid_lon = df_asteroids0[i].asteroid_lon
           /\ df_asteroids[i].diameter_m = df_asteroids0[i].diameter_m
           /\ df_asteroids[i].v_rel = df_asteroids0[i].v_rel
           /\ df_asteroids[i].closest_delta_km = df_asteroids0[i].closest_delta_km
    /\ \A i \in DOMAIN df_cities :
           /\ df_cities[i].lat = df_cities0[i].lat
           /\ df_cities[i].lng = df_cities0[i].lng

\* C10's case: a second call, after a call that rewrote both name columns,
\* that selects a row whose longitude had to be normalized and succeeds
C10_Witness ==
    /\ IsCityCall
    /\ call.nth = 2
    /\ df_asteroids # df_asteroids0
    /\ df_cities # df_cities0
    /\ call.out.status = "ok"
    /\ call.out.asteroid_row.asteroid_lon
           # df_asteroids0[call.out.asteroid_row.name].asteroid_lon

(***************************************************************************)
(* Properties of normalize_lon.                                            *)
(***************************************************************************)
\* C5: normalize_lon maps every whole longitude to the one value v with
\* -180 <= v < 180 that is congruent to it modulo 360; and so the validation
\* that follows the normalization in predict_damage_for_city fails only for a
\* latitude outside [-90, 90], never for a longitude.
C5_NormalizeLonRange ==
    /\ call.name = "normalize_lon" =>
           /\ -180 <= call.out /\ call.out < 180
           /\ (call.out - call.lon) % 360 = 0
           /\ \A v \in -180..179 : (v - call.lon) % 360 = 0 => v = call.out
    /\ (IsCityCall /\ call.out.status = "Exception") =>
           /\ call.out.message[3] = "invalid_asteroid_coords" =>
                  LET lat == call.out.asteroid_row.asteroid_lat
                  IN  lat < -90 \/ lat > 90
           /\ call.out.message[3] = "invalid_city_coords" =>
                  LET lat == call.out.city_row.lat
                  IN  lat < -90 \/ lat > 90
    /\ (IsCityCall /\ call.out.asteroid_row # NoRow) =>
           /\ -180 <= call.out.asteroid_row.asteroid_lon
           /\ call.out.asteroid_row.asteroid_lon < 180
           /\ -180 <= call.out.city_row.lng
           /\ call.out.city_row.lng < 180

\* C5's case: a longitude one and a half turns off is brought to -180, and the
\* validation then fails for the latitude of 91 degrees
C5_Witness ==
    /\ IsCityCall
    /\ call.out.message = <<CleanQuery(call.asteroid), CleanQuery(call.city),
                            "invalid_asteroid_coords">>
    /\ df_asteroids0[call.out.asteroid_row.name].asteroid_lon = 540
    /\ call.out.asteroid_row.asteroid_lon = -180
    /\ call.out.asteroid_row.asteroid_lat = 91

(***************************************************************************)
(* Properties of predict_damage_with_model and haversine_distance.         *)
(***************************************************************************)
IsPdmCall == call.name = "predict_damage_with_model"

\* C3, as documented: predict_damage_with_model raises ValueError whenever
\* diameter_m < 1.0, velocity_kms < 0.1, or the model or a scaler is not
\* provided, and returns a (crater_diam_km, blast_radius_km) pair only when all
\* inputs are valid.  The code catches its own ValueError and returns (nan, nan).
C3_RaisesValueErrorOnInvalidInput ==
    IsPdmCall =>
        LET invalid == \/ call.diameter_m < 10
                       \/ call.velocity_kms < 10
                       \/ call.model = None
                       \/ call.scaler_X = None
                       \/ call.scaler_y = None
        IN  /\ invalid => call.out.raised = "ValueError"
            /\ ~invalid => (call.out.raised = "none" /\ call.out.value[1] # NaN
                            /\ call.out.value[2] # NaN)

IsHavCall == call.name = "haversine_distance"

\* C4: haversine_distance raises ValueError exactly when a latitude lies outside
\* [-90, 90] or a longitude outside [-180, 180], the bounds themselves being
\* accepted; for every pair of points in range it returns a distance and raises
\* nothing.  The raising is as stated; what is returned is not a distance for
\* a pair in range such as (8, 0) and its antipode (-8, 180), where the result
\* is nan.
C4_RaisesIffOutOfRange ==
    IsHavCall =>
        LET outside == \/ call.lat1 < -90 \/ call.lat1 > 90
                       \/ call.lat2 < -90 \/ call.lat2 > 90
                       \/ call.lon1 < -180 \/ call.lon1 > 180
                       \/ call.lon2 < -180 \/ call.lon2 > 180
        IN  /\ (call.out.raised = "ValueError") = outside
            /\ ~outside => (call.out.raised = "none" /\ call.out.value # NaN
                            /\ call.out.value >= 0)

(***************************************************************************)
(* Properties of app.py.                                                   *)
(***************************************************************************)
IsImpactCall == call.name = "impact"

\* C7: calculate_earthquake_magnitude returns exactly 0.0 for every energy <= 0
\* and (2/3) * (log10(energy) - 4.8) for every energy > 0; hence /impact reports
\* earthquake_magnitude 0.0 whenever diameter_m <= 0 or velocity_kms = 0, and
\* never fails in the magnitude step.  The function part holds; the response
\* with magnitude 0.0 is not produced for a negative diameter at a nonzero
\* velocity, where the blast radius is a complex number that cannot be
\* serialised.
C7_MagnitudeZeroReported ==
    /\ call.name = "calculate_earthquake_magnitude" =>
           /\ call.out.raised = "none"
           /\ call.energy_joules.s <= 0 => call.out.value = 0
           /\ call.energy_joules.s > 0 =>
                  call.out.value = (2 * (call.energy_joules.l - 4800)) \div 3
    /\ IsImpactCall =>
           /\ call.out.step # "magnitude"
           /\ (call.diameter_m <= 0 \/ call.velocity_kms = 0) =>
                  (call.out.status = 200 /\ call.out.earthquake_magnitude = 0)

\* the volcanoes within 50 km of the called point, by great-circle distance
VolcanoesNear(lat, lon) ==
    LET p == CHOOSE q \in ImpactPoints : q.lat = lat /\ q.lon = lon
    IN  {i \in DOMAIN volcanoes : p.dist[i] <= 50000}

\* C8: is_volcanic_area returns (False, None, None) when the point is farther
\* than 50 km from every listed volcano; otherwise (True, name, level) with name
\* the first volcano in list order within 50 km inclusive and level "high" for
\* energy > 1e19, "medium" for 1e17 < energy <= 1e19, "low" for energy <= 1e17;
\* the level is non-null exactly when the flag is true.  The second part
\* holds; the first does not for a point within rounding of a volcano's
\* antipode, some 20015 km away, where haversine_distance raises ValueError.
C8_FirstVolcanoWithinRadius ==
    call.name = "is_volcanic_area" =>
        LET near == VolcanoesNear(call.lat, call.lon)
            e == call.energy_joules
            above17 == e.s = 1 /\ e.l > 17000
            above19 == e.s = 1 /\ e.l > 19000
        IN  /\ call.out.raised = "none"
            /\ near = {} => call.out.value = <<FALSE, "None", "None">>
            /\ near # {} =>
                   /\ call.out.value[1] = TRUE
                   /\ call.out.value[2] = volcanoes[SetMin(near)].name
                   /\ above19 => call.out.value[3] = "high"
                   /\ (above17 /\ ~above19) => call.out.value[3] = "medium"
                   /\ ~above17 => call.out.value[3] = "low"
            /\ (call.out.value[3] # "None") = (call.out.value[1] = TRUE)

\* C9: in every /impact response catastrophic_destruction is true exactly when
\* diameter_m >= 12742000, catastrophic_message is "Total destruction!" exactly
\* when the flag is true and null otherwise, and the other reported fields are
\* what the formulas give for the inputs, whether or not the flag is set.
C9_CatastrophicFlag ==
    (IsImpactCall /\ call.out.status = 200) =>
        LET d == FromInt(call.diameter_m)
            v == FromInt(call.velocity_kms)
            e == calculate_energy(d, v)
        IN  /\ call.out.catastrophic_destruction = (call.diameter_m >= 12742000)
            /\ (call.out.catastrophic_message = "Total destruction!")
                   = call.out.catastrophic_destruction
            /\ ~call.out.catastrophic_destruction => call.out.catastrophic_message = "None"
            /\ call.out.energy_joules = e
            /\ call.out.crater_diameter_m = calculate_crater_diameter(d, v)
            /\ call.out.blast_radius_km = calculate_blast_radius(e)
            /\ call.out.earthquake_magnitude = calculate_earthquake_magnitude(e).value
            /\ <<call.out.is_affected, call.out.volcano_name, call.out.impact_level>>
                   = is_volcanic_area(call.lat, call.lon, e).value

\* C9's case: an impactor exactly as wide as the Earth
C9_Witness ==
    /\ IsImpactCall
    /\ call.diameter_m = 12742000
    /\ call.out.status = 200
    /\ call.out.catastrophic_destruction = TRUE
    /\ call.out.catastrophic_message = "Total destruction!"

====
